---- MODULE Spec2Model ----
(***************************************************************************)
(* Career Compass (src/app.py): the Streamlit script as a state machine.   *)
(*                                                                         *)
(* One step of the machine is one user interaction: the script run that    *)
(* the interaction triggers and, when that run ends in st.rerun(), the     *)
(* run that follows it.  st.session_state is the record built by Cur; the  *)
(* values of the unkeyed widgets (category radio, the two select boxes)    *)
(* live next to it, and `view` records what the last run rendered.         *)
(***************************************************************************)
EXTENDS Integers, Sequences, FiniteSets, TLC

VARIABLES
    keys,                          \* the slots present in st.session_state
    page,
    chat_stage,
    user_data,                     \* dict, as the sequence of its items
    career_preferences,            \* dict, as a function on its keys
    career_path_recommendations,
    selected_career_path,
    consultation_history,
    skills_gap,                    \* dict category -> dict skill -> rating
    break_duration,                \* in half years (the widget's step)
    learning_progress,             \* dict stage -> 0..100
    category,                      \* widget: radio of the recommendations page
    path_options,                  \* widget: the options the path box was built with
    path_value,                    \* widget: the path box's value
    selected_career,               \* widget: target career of the gap page
    view                           \* what the last script run rendered

vars == <<keys, page, chat_stage, user_data, career_preferences,
          career_path_recommendations, selected_career_path,
          consultation_history, skills_gap, break_duration, learning_progress,
          category, path_options, path_value, selected_career, view>>

None == "None"

\* ------------------------------------------------------------------------
\* Bounds of the model
\* ------------------------------------------------------------------------

\* questions asked in one session on the consultation page
MaxQuestions == 1

\* skills of the gap page that carry a rating above 0 at one time
MaxRated == 1

\* entries of the path select box the user picks among (the first ones)
MaxChoice == 2

\* exchanges a consultation history grows to when the chat is followed alone
MaxExchanges == 2

\* ------------------------------------------------------------------------
\* Text
\* ------------------------------------------------------------------------

\* Free text typed into a form; "" is the empty submission.
Answers == {"a"}

PreferenceAnswers == {"p"}

\* A consultation question is a string, modelled as the sequence of its
\* characters, so that lower() and the substring tests are computed.
lower_table ==
    [c \in {"A","B","C","D","E","F","G","H","I","J","K","L","M","N","O","P","Q",
            "R","S","T","U","V","W","X","Y","Z"} |->
        CASE c = "A" -> "a" [] c = "B" -> "b" [] c = "C" -> "c" [] c = "D" -> "d"
          [] c = "E" -> "e" [] c = "F" -> "f" [] c = "G" -> "g" [] c = "H" -> "h"
          [] c = "I" -> "i" [] c = "J" -> "j" [] c = "K" -> "k" [] c = "L" -> "l"
          [] c = "M" -> "m" [] c = "N" -> "n" [] c = "O" -> "o" [] c = "P" -> "p"
          [] c = "Q" -> "q" [] c = "R" -> "r" [] c = "S" -> "s" [] c = "T" -> "t"
          [] c = "U" -> "u" [] c = "V" -> "v" [] c = "W" -> "w" [] c = "X" -> "x"
          [] c = "Y" -> "y" [] c = "Z" -> "z"]

\* str.lower()
lower(s) == [i \in 1..Len(s) |-> IF s[i] \in DOMAIN lower_table
                                 THEN lower_table[s[i]] ELSE s[i]]

\* needle in hay
contains(hay, needle) ==
    \E i \in 1..(Len(hay) - Len(needle) + 1) :
        SubSeq(hay, i, i + Len(needle) - 1) = needle

\* ------------------------------------------------------------------------
\* Static tables
\* ------------------------------------------------------------------------

pages == <<"Profile Setup", "Career Assessment", "Career Recommendations",
           "Learning Roadmap", "Skills Gap Analysis", "Live AI Consultation">>

profile_questions == <<"Full Name", "Age", "Education", "Technical Background">>

career_preference_questions ==
    <<"interests", "work_style", "learning_style", "career_goals">>

state_defaults == {"chat_session", "chat_stage", "user_data", "career_preferences",
                   "skills_assessment", "career_path_recommendations",
                   "selected_career_path", "learning_roadmap"}

\* the two lists that the category filter tests membership in, lines 424-431
technical_names ==
    <<"Software Development", "Data Science", "Machine Learning Engineering",
      "DevOps Engineering", "Data Analytics", "Cybersecurity", "UI/UX Design">>

non_technical_names ==
    <<"Digital Marketing", "Product Management", "Business Analysis",
      "Technical Writing", "IT Project Management",
      "IT Sales & Business Development">>

\* the except branch of display_career_recommendations, lines 393-409
fallback_recommendations ==
    <<"Software Development", "Data Science", "Machine Learning Engineering",
      "DevOps Engineering", "Data Analytics", "Cybersecurity", "UI/UX Design",
      "Digital Marketing", "Product Management", "Business Analysis",
      "Technical Writing", "IT Project Management",
      "IT Sales & Business Development">>

\* keys of market_data and of career_details (the same thirteen names)
market_data_keys ==
    {technical_names[i] : i \in 1..Len(technical_names)}
        \cup {non_technical_names[i] : i \in 1..Len(non_technical_names)}

career_options == technical_names

categories == <<"All Careers", "Technical Careers", "Non-Technical Careers">>

Range(s) == {s[i] : i \in 1..Len(s)}

\* industry_skills of get_industry_skills: per career the categories in table
\* order, each with its skills (name, weight) in table order.
industry_skills ==
    [c \in {"Software Development", "Data Science"} |->
        IF c = "Software Development" THEN
          << [category |-> "Technical", skills |->
                << [name |-> "Modern JavaScript (ES6+)", weight |-> 4],
                   [name |-> "React/Angular/Vue.js", weight |-> 4],
                   [name |-> "Node.js", weight |-> 3],
                   [name |-> "Cloud Services (AWS/Azure/GCP)", weight |-> 4],
                   [name |-> "Docker & Kubernetes", weight |-> 3] >>],
             [category |-> "Tools", skills |->
                << [name |-> "Git & GitHub", weight |-> 5],
                   [name |-> "VS Code/Modern IDEs", weight |-> 4],
                   [name |-> "Testing Frameworks", weight |-> 4] >>],
             [category |-> "Soft Skills", skills |->
                << [name |-> "Agile Methodologies", weight |-> 4],
                   [name |-> "Technical Communication", weight |-> 5],
                   [name |-> "Problem-Solving", weight |-> 5] >>] >>
        ELSE
          << [category |-> "Technical", skills |->
                << [name |-> "Python for Data Science", weight |-> 5],
                   [name |-> "Machine Learning", weight |-> 4],
                   [name |-> "Deep Learning", weight |-> 3],
                   [name |-> "Statistical Analysis", weight |-> 4] >>],
             [category |-> "Tools", skills |->
                << [name |-> "SQL & Databases", weight |-> 5],
                   [name |-> "Jupyter & Data Tools", weight |-> 4],
                   [name |-> "Visualization Tools", weight |-> 4] >>],
             [category |-> "Soft Skills", skills |->
                << [name |-> "Data Storytelling", weight |-> 4],
                   [name |-> "Business Acumen", weight |-> 4],
                   [name |-> "Research Methodology", weight |-> 3] >>] >>]

\* industry_skills.get(career_path, {})
get_industry_skills(career_path) ==
    IF career_path \in DOMAIN industry_skills
    THEN industry_skills[career_path] ELSE <<>>

\* learning_paths of display_learning_roadmap: per career and stage, the
\* fields each course record carries.
full_course == {"name", "platform", "url"}

learning_paths ==
    [c \in {"Software Development", "Data Science"} |->
        IF c = "Software Development" THEN
          << [stage |-> "fundamentals", courses |-> <<full_course, full_course>>],
             [stage |-> "core_skills",  courses |-> <<full_course, full_course>>],
             [stage |-> "specialized",  courses |-> <<full_course, full_course>>] >>
        ELSE
          << [stage |-> "fundamentals", courses |-> <<full_course, full_course>>],
             [stage |-> "core_skills",  courses |-> <<{"name", "url"}, full_course>>],
             [stage |-> "specialized",  courses |-> <<full_course, full_course>>] >>]

learning_stages == <<"fundamentals", "core_skills", "specialized">>

\* ------------------------------------------------------------------------
\* Dictionaries
\* ------------------------------------------------------------------------

\* a dict kept as the sequence of its items, insertion order
ItemKeys(d) == {d[i].key : i \in 1..Len(d)}

\* mutant: a new key goes in front of the items instead of behind them
ItemSet_in_front(d, k, v) ==
    IF k \in ItemKeys(d)
    THEN [i \in 1..Len(d) |-> IF d[i].key = k THEN [key |-> k, value |-> v] ELSE d[i]]
    ELSE <<[key |-> k, value |-> v]>> \o d

\* d[k] = v on an item sequence: replace in place, or append
ItemSet(d, k, v) ==
    IF k \in ItemKeys(d)
    THEN [i \in 1..Len(d) |-> IF d[i].key = k THEN [key |-> k, value |-> v] ELSE d[i]]
    ELSE Append(d, [key |-> k, value |-> v])

\* d.get(k, default) on a function
Get(d, k, default) == IF k \in DOMAIN d THEN d[k] ELSE default

\* d[k] = v on a function
Put(d, k, v) == [x \in DOMAIN d \cup {k} |-> IF x = k THEN v ELSE d[x]]

\* ------------------------------------------------------------------------
\* Events: the one widget the user acted on before a script run
\* ------------------------------------------------------------------------

NoEvent == [widget |-> "none", text |-> "", question |-> <<>>, num |-> 0,
            group |-> "", skill |-> "", responses |-> <<>>]

Event(w) == [NoEvent EXCEPT !.widget = w]

\* replies of the external model to the recommendation prompt: the call
\* raises, or returns text that json.loads rejects or accepts; parsed text may
\* lack "recommended_paths", and an item may lack "career_path"
Item(name) == [has_career_path |-> TRUE, career_path |-> name]

BadItem == [has_career_path |-> FALSE, career_path |-> ""]

Reply(raises, is_json, has_paths, items) ==
    [raises |-> raises, is_json |-> is_json, has_paths |-> has_paths,
     recommended_paths |-> items]

Replies ==
    { Reply(TRUE, FALSE, FALSE, <<>>),
      Reply(FALSE, FALSE, FALSE, <<>>),
      Reply(FALSE, TRUE, FALSE, <<>>),
      Reply(FALSE, TRUE, TRUE, <<Item("Data Science"), BadItem>>),
      Reply(FALSE, TRUE, TRUE, <<>>),
      Reply(FALSE, TRUE, TRUE,
            <<Item("Blockchain Engineering"), Item("Data Science")>>) }

\* replies of the external model to a consultation prompt
Consultations == {"raise", "answer"}

\* ------------------------------------------------------------------------
\* The view: what one script run rendered
\* ------------------------------------------------------------------------

NoView == [routine |-> "none", branch |-> "none", redirect |-> None,
           start_chat_calls |-> 0, chat_session_stored |-> FALSE,
           generation_calls |-> 0, consultation_calls |-> 0, error |-> FALSE,
           paths_to_show |-> <<>>, analysis |-> FALSE, target |-> None,
           all_gaps |-> <<>>, completed_skills |-> 0, total_skills |-> 0]

\* result of a (partial) script run
Done(s, v) == [s |-> s, rerun |-> FALSE, view |-> v]

Rerun(s) == [s |-> s, rerun |-> TRUE, view |-> NoView]

\* ------------------------------------------------------------------------
\* Profile Setup
\* ------------------------------------------------------------------------

\* mutant: "if submit_button:" without the test of user_input
display_profile_setup_unchecked(s, ev) ==
    LET v == [NoView EXCEPT !.routine = "Profile Setup"] IN
    IF s.chat_stage < Len(profile_questions) THEN
        LET key == profile_questions[s.chat_stage + 1] IN
        IF ev.widget = "profile_form"
        THEN Rerun([s EXCEPT !.user_data = ItemSet(@, key, ev.text),
                             !.chat_stage = @ + 1])
        ELSE Done(s, [v EXCEPT !.branch = "question"])
    ELSE
        IF ev.widget = "Go to Career Assessment"
        THEN Rerun([s EXCEPT !.page = "Career Assessment"])
        ELSE Done(s, [v EXCEPT !.branch = "completed",
                               !.redirect = "Go to Career Assessment"])

\* mutant: the completed branch taken one question early
display_profile_setup_off_by_one(s, ev) ==
    LET v == [NoView EXCEPT !.routine = "Profile Setup"] IN
    IF s.chat_stage < Len(profile_questions) - 1 THEN
        LET key == profile_questions[s.chat_stage + 1] IN
        IF ev.widget = "profile_form" /\ ev.text # ""
        THEN Rerun([s EXCEPT !.user_data = ItemSet(@, key, ev.text),
                             !.chat_stage = @ + 1])
        ELSE Done(s, [v EXCEPT !.branch = "question"])
    ELSE
        IF ev.widget = "Go to Career Assessment"
        THEN Rerun([s EXCEPT !.page = "Career Assessment"])
        ELSE Done(s, [v EXCEPT !.branch = "completed",
                               !.redirect = "Go to Career Assessment"])

\* mutant: the last answer moves the session on to Career Assessment
display_profile_setup_advancing(s, ev) ==
    LET v == [NoView EXCEPT !.routine = "Profile Setup"] IN
    IF s.chat_stage < Len(profile_questions) THEN
        LET key == profile_questions[s.chat_stage + 1] IN
        IF ev.widget = "profile_form" /\ ev.text # ""
        THEN Rerun([s EXCEPT !.user_data = ItemSet(@, key, ev.text),
                             !.chat_stage = @ + 1,
                             !.page = IF s.chat_stage + 1 = Len(profile_questions)
                                      THEN "Career Assessment" ELSE @])
        ELSE Done(s, [v EXCEPT !.branch = "question"])
    ELSE
        IF ev.widget = "Go to Career Assessment"
        THEN Rerun([s EXCEPT !.page = "Career Assessment"])
        ELSE Done(s, [v EXCEPT !.branch = "completed",
                               !.redirect = "Go to Career Assessment"])

display_profile_setup(s, ev) ==
    LET v == [NoView EXCEPT !.routine = "Profile Setup"] IN
    IF s.chat_stage < Len(profile_questions) THEN
        LET key == profile_questions[s.chat_stage + 1] IN
        IF ev.widget = "profile_form" /\ ev.text # ""
        THEN Rerun([s EXCEPT !.user_data = ItemSet(@, key, ev.text),
                             !.chat_stage = @ + 1])
        ELSE Done(s, [v EXCEPT !.branch = "question"])
    ELSE
        IF ev.widget = "Go to Career Assessment"
        THEN Rerun([s EXCEPT !.page = "Career Assessment"])
        ELSE Done(s, [v EXCEPT !.branch = "completed",
                               !.redirect = "Go to Career Assessment"])

\* ------------------------------------------------------------------------
\* Career Assessment
\* ------------------------------------------------------------------------

\* mutant: the stored answers replaced by the ones of this submission
store_responses_replacing(prefs, responses) ==
    LET filled == {k \in DOMAIN responses : responses[k] # ""} IN
    IF filled = {} THEN prefs ELSE [k \in filled |-> responses[k]]

\* mutant: the loop without "if response:", every response is stored
store_responses_unfiltered(prefs, responses) ==
    [k \in DOMAIN prefs \cup DOMAIN responses |->
        IF k \in DOMAIN responses THEN responses[k] ELSE prefs[k]]

\* lines 181-186: only the non-empty responses are stored
store_responses(prefs, responses) ==
    LET filled == {k \in DOMAIN responses : responses[k] # ""} IN
    [k \in DOMAIN prefs \cup filled |->
        IF k \in filled THEN responses[k] ELSE prefs[k]]

\* mutant: the completed render moves the session on to the next page
display_career_assessment_advancing(s, ev) ==
    LET v == [NoView EXCEPT !.routine = "Career Assessment"]
        total_questions == Len(career_preference_questions)
    IN
    IF s.user_data = <<>> THEN
        IF ev.widget = "Go to Profile Setup"
        THEN Rerun([s EXCEPT !.page = "Profile Setup"])
        ELSE Done(s, [v EXCEPT !.branch = "guidance",
                               !.redirect = "Go to Profile Setup"])
    ELSE IF ev.widget = "career_assessment_form" THEN
        Rerun([s EXCEPT !.career_preferences = store_responses(@, ev.responses)])
    ELSE IF Cardinality(DOMAIN s.career_preferences) = total_questions THEN
        IF ev.widget = "View Career Recommendations"
        THEN Rerun([s EXCEPT !.page = "Career Recommendations"])
        ELSE Done([s EXCEPT !.page = "Career Recommendations"],
                  [v EXCEPT !.branch = "completed",
                            !.redirect = "View Career Recommendations"])
    ELSE Done(s, [v EXCEPT !.branch = "form"])

display_career_assessment(s, ev) ==
    LET v == [NoView EXCEPT !.routine = "Career Assessment"]
        total_questions == Len(career_preference_questions)
    IN
    IF s.user_data = <<>> THEN
        IF ev.widget = "Go to Profile Setup"
        THEN Rerun([s EXCEPT !.page = "Profile Setup"])
        ELSE Done(s, [v EXCEPT !.branch = "guidance",
                               !.redirect = "Go to Profile Setup"])
    ELSE IF ev.widget = "career_assessment_form" THEN
        Rerun([s EXCEPT !.career_preferences = store_responses(@, ev.responses)])
    ELSE IF Cardinality(DOMAIN s.career_preferences) = total_questions THEN
        IF ev.widget = "View Career Recommendations"
        THEN Rerun([s EXCEPT !.page = "Career Recommendations"])
        ELSE Done(s, [v EXCEPT !.branch = "completed",
                               !.redirect = "View Career Recommendations"])
    ELSE Done(s, [v EXCEPT !.branch = "form"])

\* ------------------------------------------------------------------------
\* Career Recommendations
\* ------------------------------------------------------------------------

\* [path for path in all_paths if path in names]
filter_paths(all_paths, names) ==
    SelectSeq(all_paths, LAMBDA path : path \in Range(names))

\* mutant: "except: pass", a failure leaves the list empty
generate_recommendations_no_fallback(reply) ==
    IF reply.raises \/ ~reply.is_json \/ ~reply.has_paths
       \/ \E i \in 1..Len(reply.recommended_paths) :
              ~reply.recommended_paths[i].has_career_path
    THEN <<>>
    ELSE [i \in 1..Len(reply.recommended_paths) |->
              reply.recommended_paths[i].career_path]

\* lines 382-409: the try block and its bare except
generate_recommendations(reply) ==
    IF reply.raises \/ ~reply.is_json \/ ~reply.has_paths
       \/ \E i \in 1..Len(reply.recommended_paths) :
              ~reply.recommended_paths[i].has_career_path
    THEN fallback_recommendations
    ELSE [i \in 1..Len(reply.recommended_paths) |->
              reply.recommended_paths[i].career_path]

\* mutant: the non-technical list taken as whatever is not technical
select_paths_to_show_by_exclusion(cat, all_paths) ==
    IF cat = "Technical Careers" THEN filter_paths(all_paths, technical_names)
    ELSE IF cat = "Non-Technical Careers"
         THEN SelectSeq(all_paths, LAMBDA path : path \notin Range(technical_names))
    ELSE all_paths

\* lines 435-440
select_paths_to_show(cat, all_paths) ==
    IF cat = "Technical Careers" THEN filter_paths(all_paths, technical_names)
    ELSE IF cat = "Non-Technical Careers"
         THEN filter_paths(all_paths, non_technical_names)
    ELSE all_paths

\* mutant: a box that shows no entry until the user picks one
selectbox_no_default(options, old_options, old_value, ev) ==
    IF ev.widget = "path_box" THEN ev.text
    ELSE IF options = <<>> THEN None
    ELSE IF options = old_options THEN old_value
    ELSE None

\* st.selectbox without a key: the box keeps its value while it is built with
\* the same options, and starts on its first option otherwise
selectbox(options, old_options, old_value, ev) ==
    IF ev.widget = "path_box" THEN ev.text
    ELSE IF options = <<>> THEN None
    ELSE IF options = old_options THEN old_value
    ELSE options[1]

\* mutant: the call is made on every render that has preferences
needs_generation_every_render(recommendations, preferences) ==
    DOMAIN preferences # {}

\* mutant: the call waits for the assessment to be complete
needs_generation_when_complete(recommendations, preferences) ==
    recommendations = <<>>
        /\ DOMAIN preferences = Range(career_preference_questions)

\* lines 379-380: "if not recommendations: if career_preferences:"
needs_generation(recommendations, preferences) ==
    recommendations = <<>> /\ DOMAIN preferences # {}

display_career_recommendations(s, ev, reply) ==
    LET generate == needs_generation(s.career_path_recommendations,
                                     s.career_preferences)
        all_paths == IF generate THEN generate_recommendations(reply)
                     ELSE s.career_path_recommendations
        shown == all_paths # <<>>
        cat == IF ~shown THEN categories[1]
               ELSE IF ev.widget = "category" THEN ev.text ELSE s.category
        paths_to_show == IF shown THEN select_paths_to_show(cat, all_paths) ELSE <<>>
        selected_path == IF shown
                         THEN selectbox(paths_to_show, s.path_options, s.path_value, ev)
                         ELSE None
        selected == IF shown /\ selected_path # None /\ selected_path # ""
                    THEN selected_path ELSE s.selected_career_path
    IN  Done([s EXCEPT !.career_path_recommendations = all_paths,
                       !.selected_career_path = selected,
                       !.category = cat,
                       !.path_options = paths_to_show,
                       !.path_value = selected_path],
             [NoView EXCEPT !.routine = "Career Recommendations",
                            !.branch = IF shown THEN "recommendations"
                                       ELSE IF selected # None THEN "details"
                                       ELSE "header only",
                            !.generation_calls = IF generate THEN 1 ELSE 0,
                            !.paths_to_show = paths_to_show])

\* ------------------------------------------------------------------------
\* Learning Roadmap
\* ------------------------------------------------------------------------

\* mutant: the other entry of the table taken as the default
roadmap_content_wrong_default(selected) ==
    IF selected \in DOMAIN learning_paths THEN selected ELSE "Data Science"

\* learning_paths.get(selected_career_path, learning_paths["Software Development"])
roadmap_content(selected) ==
    IF selected \in DOMAIN learning_paths THEN selected ELSE "Software Development"

\* lines 847-864: every course record is read for url, name and platform
resources_render(career) ==
    \A i \in 1..Len(learning_paths[career]) :
        \A j \in 1..Len(learning_paths[career][i].courses) :
            {"url", "name", "platform"} \subseteq learning_paths[career][i].courses[j]

\* mutant: no test of selected_career_path before the roadmap is drawn
display_learning_roadmap_unguarded(s, ev) ==
    LET v == [NoView EXCEPT !.routine = "Learning Roadmap"]
        old == IF "learning_progress" \in s.keys THEN s.learning_progress
               ELSE [st \in Range(learning_stages) |-> 0]
        new == [st \in DOMAIN old |->
                    IF ev.widget = "progress" /\ ev.skill = st
                    THEN ev.num ELSE old[st]]
        content == roadmap_content(s.selected_career_path)
    IN  Done([s EXCEPT !.keys = @ \cup {"learning_progress"},
                       !.learning_progress = new],
             [v EXCEPT !.branch = "roadmap",
                       !.target = content,
                       !.error = ~resources_render(content)])

display_learning_roadmap(s, ev) ==
    LET v == [NoView EXCEPT !.routine = "Learning Roadmap"] IN
    IF s.selected_career_path = None \/ s.selected_career_path = "" THEN
        IF ev.widget = "Go to Career Recommendations"
        THEN Rerun([s EXCEPT !.page = "Career Recommendations"])
        ELSE Done(s, [v EXCEPT !.branch = "guidance",
                               !.redirect = "Go to Career Recommendations"])
    ELSE
        LET old == IF "learning_progress" \in s.keys THEN s.learning_progress
                   ELSE [st \in Range(learning_stages) |-> 0]
            new == [st \in DOMAIN old |->
                        IF ev.widget = "progress" /\ ev.skill = st
                        THEN ev.num ELSE old[st]]
            content == roadmap_content(s.selected_career_path)
        IN  Done([s EXCEPT !.keys = @ \cup {"learning_progress"},
                           !.learning_progress = new],
                 [v EXCEPT !.branch = "roadmap",
                           !.target = content,
                           !.error = ~resources_render(content)])

\* ------------------------------------------------------------------------
\* Live AI Consultation
\* ------------------------------------------------------------------------

kw_career == <<"c","a","r","e","e","r">>
kw_job    == <<"j","o","b">>
kw_skill  == <<"s","k","i","l","l">>
kw_learn  == <<"l","e","a","r","n">>
kw_salary == <<"s","a","l","a","r","y">>
kw_pay    == <<"p","a","y">>

\* mutant: the keywords are looked for in the question as typed
fallback_response_case_sensitive(user_question) ==
    LET keywords == user_question IN
    IF contains(keywords, kw_career) \/ contains(keywords, kw_job)
        THEN "canned: career paths"
    ELSE IF contains(keywords, kw_skill) \/ contains(keywords, kw_learn)
        THEN "canned: skills"
    ELSE IF contains(keywords, kw_salary) \/ contains(keywords, kw_pay)
        THEN "canned: salary"
    ELSE "canned: be more specific"

\* lines 963-971: the canned response for a question
fallback_response(user_question) ==
    LET keywords == lower(user_question) IN
    IF contains(keywords, kw_career) \/ contains(keywords, kw_job)
        THEN "canned: career paths"
    ELSE IF contains(keywords, kw_skill) \/ contains(keywords, kw_learn)
        THEN "canned: skills"
    ELSE IF contains(keywords, kw_salary) \/ contains(keywords, kw_pay)
        THEN "canned: salary"
    ELSE "canned: be more specific"

\* mutant: the model is asked whether or not a profile answer is on file
consultation_response_without_profile_check(user_question, data, consultation) ==
    IF consultation = "raise" THEN fallback_response(user_question)
    ELSE "model answer"

\* mutant: a question with a known keyword gets its canned response at once,
\* the model is asked about the others only
consultation_response_canned_first(user_question, data, consultation) ==
    IF data = <<>> THEN "complete your profile setup first"
    ELSE IF fallback_response(user_question) # "canned: be more specific"
        THEN fallback_response(user_question)
    ELSE IF consultation = "raise" THEN fallback_response(user_question)
    ELSE "model answer"

\* lines 951-971
consultation_response(user_question, data, consultation) ==
    IF data = <<>> THEN "complete your profile setup first"
    ELSE IF consultation = "raise" THEN fallback_response(user_question)
    ELSE "model answer"

Turn(role, content) == [role |-> role, content |-> content]

\* mutant: a failed model call leaves the question without an assistant turn
display_live_consultation_silent_on_failure(s, ev, consultation) ==
    LET v == [NoView EXCEPT !.routine = "Live AI Consultation"]
        history == IF "consultation_history" \in s.keys
                   THEN s.consultation_history ELSE <<>>
        s1 == [s EXCEPT !.keys = @ \cup {"consultation_history"},
                        !.consultation_history = history]
    IN
    IF ev.widget = "chat_input" /\ ev.question # <<>> THEN
        LET response == consultation_response(ev.question, s.user_data, consultation)
        IN  Done([s1 EXCEPT !.consultation_history =
                        IF s.user_data # <<>> /\ consultation = "raise"
                        THEN history \o <<Turn("user", ev.question)>>
                        ELSE history \o <<Turn("user", ev.question),
                                          Turn("assistant", response)>>],
                 [v EXCEPT !.branch = "answered",
                           !.consultation_calls =
                                IF s.user_data = <<>> THEN 0 ELSE 1])
    ELSE IF history # <<>> /\ ev.widget = "Clear Chat History" THEN
        Rerun([s1 EXCEPT !.consultation_history = <<>>])
    ELSE Done(s1, [v EXCEPT !.branch = "chat"])

\* mutant: the history holds the latest exchange only
display_live_consultation_latest_only(s, ev, consultation) ==
    LET v == [NoView EXCEPT !.routine = "Live AI Consultation"]
        history == IF "consultation_history" \in s.keys
                   THEN s.consultation_history ELSE <<>>
        s1 == [s EXCEPT !.keys = @ \cup {"consultation_history"},
                        !.consultation_history = history]
    IN
    IF ev.widget = "chat_input" /\ ev.question # <<>> THEN
        LET response == consultation_response(ev.question, s.user_data, consultation)
        IN  Done([s1 EXCEPT !.consultation_history =
                        <<Turn("user", ev.question),
                          Turn("assistant", response)>>],
                 [v EXCEPT !.branch = "answered",
                           !.consultation_calls =
                                IF s.user_data = <<>> THEN 0 ELSE 1])
    ELSE IF history # <<>> /\ ev.widget = "Clear Chat History" THEN
        Rerun([s1 EXCEPT !.consultation_history = <<>>])
    ELSE Done(s1, [v EXCEPT !.branch = "chat"])

display_live_consultation(s, ev, consultation) ==
    LET v == [NoView EXCEPT !.routine = "Live AI Consultation"]
        history == IF "consultation_history" \in s.keys
                   THEN s.consultation_history ELSE <<>>
        s1 == [s EXCEPT !.keys = @ \cup {"consultation_history"},
                        !.consultation_history = history]
    IN
    IF ev.widget = "chat_input" /\ ev.question # <<>> THEN
        LET response == consultation_response(ev.question, s.user_data, consultation)
        IN  Done([s1 EXCEPT !.consultation_history =
                        history \o <<Turn("user", ev.question),
                                     Turn("assistant", response)>>],
                 [v EXCEPT !.branch = "answered",
                           !.consultation_calls =
                                IF s.user_data = <<>> THEN 0 ELSE 1])
    ELSE IF history # <<>> /\ ev.widget = "Clear Chat History" THEN
        Rerun([s1 EXCEPT !.consultation_history = <<>>])
    ELSE Done(s1, [v EXCEPT !.branch = "chat"])

\* ------------------------------------------------------------------------
\* Skills Gap Analysis
\* ------------------------------------------------------------------------

\* the (category, skill) pairs of a skill table, in table order
RECURSIVE table_entries(_, _)
table_entries(tbl, i) ==
    IF i > Len(tbl) THEN <<>>
    ELSE [j \in 1..Len(tbl[i].skills) |->
             [category |-> tbl[i].category,
              skill    |-> tbl[i].skills[j].name,
              weight   |-> tbl[i].skills[j].weight,
              first_weight |-> tbl[i].skills[1].weight]]
         \o table_entries(tbl, i + 1)

\* the flattened table of every career that has one, and of the others
industry_entries ==
    [c \in Range(career_options) |-> table_entries(get_industry_skills(c), 1)]

\* skills_gap[category].get(skill, 0)
rating_of(sg, cat, skill) == Get(Get(sg, cat, <<>>), skill, 0)

\* lines 1169-1200: every slider of the chosen career is drawn with the stored
\* rating as its value, and what it returns is stored back
rate_skills(sg, es, ev) ==
    LET cats == {es[i].category : i \in 1..Len(es)}
        names(cat) == {es[i].skill : i \in {k \in 1..Len(es) : es[k].category = cat}}
    IN  [cat \in DOMAIN sg \cup cats |->
            IF cat \in cats THEN
                LET old == Get(sg, cat, <<>>) IN
                [n \in DOMAIN old \cup names(cat) |->
                    IF n \in names(cat) THEN
                        IF ev.widget = "rating" /\ ev.group = cat /\ ev.skill = n
                        THEN ev.num ELSE Get(old, n, 0)
                    ELSE old[n]]
            ELSE sg[cat]]

\* list.sort(key=priority, reverse=True): stable, equal priorities keep their order
\* mutant: a sort that puts an item in front of the items of equal priority
sort_insert_before_equal(sorted, x) ==
    LET k == Cardinality({i \in 1..Len(sorted) : sorted[i].priority > x.priority})
    IN  SubSeq(sorted, 1, k) \o <<x>> \o SubSeq(sorted, k + 1, Len(sorted))

sort_insert(sorted, x) ==
    LET k == Cardinality({i \in 1..Len(sorted) : sorted[i].priority >= x.priority})
    IN  SubSeq(sorted, 1, k) \o <<x>> \o SubSeq(sorted, k + 1, Len(sorted))

RECURSIVE sort_by_priority(_, _)
sort_by_priority(items, n) ==
    IF n = 0 THEN <<>> ELSE sort_insert(sort_by_priority(items, n - 1), items[n])

\* lines 1290-1306
compute_all_gaps(sg, es) ==
    LET gap_of(e) == e.weight - rating_of(sg, e.category, e.skill)
        found == SelectSeq(es, LAMBDA e : gap_of(e) > 0)
        all_gaps == [i \in 1..Len(found) |->
                        [category |-> found[i].category,
                         skill    |-> found[i].skill,
                         gap      |-> gap_of(found[i]),
                         priority |-> gap_of(found[i]) * found[i].weight]]
    IN  sort_by_priority(all_gaps, Len(all_gaps))

\* lines 1352-1356: the rating is compared with industry_skills[category][0]["weight"]
count_completed_skills(sg, es) ==
    Cardinality({i \in 1..Len(es) :
                    rating_of(sg, es[i].category, es[i].skill) >= es[i].first_weight})

\* mutant: the two slots of the page are set up before user_data is tested
display_skills_gap_analysis_unguarded(s, ev) ==
    LET v == [NoView EXCEPT !.routine = "Skills Gap Analysis"]
        s0 == [s EXCEPT !.keys = @ \cup {"skills_gap", "break_duration"},
                        !.skills_gap = IF "skills_gap" \in s.keys THEN @ ELSE <<>>,
                        !.break_duration =
                            IF "break_duration" \in s.keys THEN @ ELSE 0]
    IN
    IF s.user_data = <<>> THEN
        IF ev.widget = "Go to Profile Setup"
        THEN Rerun([s0 EXCEPT !.page = "Profile Setup"])
        ELSE Done(s0, [v EXCEPT !.branch = "guidance",
                                !.redirect = "Go to Profile Setup"])
    ELSE
        LET sg0 == s0.skills_gap
            bd0 == s0.break_duration
            career == IF ev.widget = "target" THEN ev.text ELSE s.selected_career
            bd == IF ev.widget = "break_duration" THEN ev.num ELSE bd0
            tbl == get_industry_skills(career)
            es == industry_entries[career]
            sg == IF tbl # <<>> THEN rate_skills(sg0, es, ev) ELSE sg0
            s1 == [s0 EXCEPT !.skills_gap = sg,
                             !.break_duration = bd,
                             !.selected_career = career]
        IN  IF tbl # <<>> THEN
                Done(s1, [v EXCEPT !.branch = "analysis",
                                   !.analysis = TRUE,
                                   !.target = career,
                                   !.all_gaps = compute_all_gaps(sg, es),
                                   !.completed_skills = count_completed_skills(sg, es),
                                   !.total_skills = Len(es)])
            ELSE Done(s1, [v EXCEPT !.branch = "selection only", !.target = career])

display_skills_gap_analysis(s, ev) ==
    LET v == [NoView EXCEPT !.routine = "Skills Gap Analysis"] IN
    IF s.user_data = <<>> THEN
        IF ev.widget = "Go to Profile Setup"
        THEN Rerun([s EXCEPT !.page = "Profile Setup"])
        ELSE Done(s, [v EXCEPT !.branch = "guidance",
                               !.redirect = "Go to Profile Setup"])
    ELSE
        LET sg0 == IF "skills_gap" \in s.keys THEN s.skills_gap ELSE <<>>
            bd0 == IF "break_duration" \in s.keys THEN s.break_duration ELSE 0
            career == IF ev.widget = "target" THEN ev.text ELSE s.selected_career
            bd == IF ev.widget = "break_duration" THEN ev.num ELSE bd0
            tbl == get_industry_skills(career)
            es == industry_entries[career]
            sg == IF tbl # <<>> THEN rate_skills(sg0, es, ev) ELSE sg0
            s1 == [s EXCEPT !.keys = @ \cup {"skills_gap", "break_duration"},
                            !.skills_gap = sg,
                            !.break_duration = bd,
                            !.selected_career = career]
        IN  IF tbl # <<>> THEN
                Done(s1, [v EXCEPT !.branch = "analysis",
                                   !.analysis = TRUE,
                                   !.target = career,
                                   !.all_gaps = compute_all_gaps(sg, es),
                                   !.completed_skills = count_completed_skills(sg, es),
                                   !.total_skills = Len(es)])
            ELSE Done(s1, [v EXCEPT !.branch = "selection only", !.target = career])

\* ------------------------------------------------------------------------
\* The script, top to bottom
\* ------------------------------------------------------------------------

\* mutant: a reset that puts the default slots back and leaves the others
Cleared_defaults_only(s) ==
    [s EXCEPT !.keys = @ \ (state_defaults \cup {"page"}), !.chat_stage = 0,
              !.user_data = <<>>, !.career_preferences = <<>>,
              !.career_path_recommendations = <<>>,
              !.selected_career_path = None]

\* mutant: a reset that leaves the selected path behind
Cleared_keeps_selection(s) ==
    [s EXCEPT !.keys = {"selected_career_path"}, !.chat_stage = 0,
              !.user_data = <<>>, !.career_preferences = <<>>,
              !.career_path_recommendations = <<>>,
              !.consultation_history = <<>>,
              !.skills_gap = <<>>, !.break_duration = 0,
              !.learning_progress = <<>>]

\* st.session_state.clear(): no slot is left
Cleared(s) ==
    [s EXCEPT !.keys = {}, !.chat_stage = 0, !.user_data = <<>>,
              !.career_preferences = <<>>, !.career_path_recommendations = <<>>,
              !.selected_career_path = None, !.consultation_history = <<>>,
              !.skills_gap = <<>>, !.break_duration = 0,
              !.learning_progress = <<>>]

\* lines 29-31: building state_defaults calls agents.model.start_chat once,
\* whether or not the chat_session slot is there to take the handle
start_chat_calls(s) == 1

\* lines 39-41: the handle made in this run is stored iff the slot is missing
chat_session_stored(s) == "chat_session" \notin s.keys

\* lines 28-43: a slot that is missing gets its default
initialize_session_state(s) ==
    [s EXCEPT !.keys = @ \cup state_defaults,
              !.chat_stage = IF "chat_stage" \in s.keys THEN @ ELSE 0,
              !.user_data = IF "user_data" \in s.keys THEN @ ELSE <<>>,
              !.career_preferences =
                    IF "career_preferences" \in s.keys THEN @ ELSE <<>>,
              !.career_path_recommendations =
                    IF "career_path_recommendations" \in s.keys THEN @ ELSE <<>>,
              !.selected_career_path =
                    IF "selected_career_path" \in s.keys THEN @ ELSE None]

\* lines 1381-1392
router(s, ev, reply, consultation) ==
    IF s.page = "Profile Setup" THEN display_profile_setup(s, ev)
    ELSE IF s.page = "Career Assessment" THEN display_career_assessment(s, ev)
    ELSE IF s.page = "Career Recommendations"
        THEN display_career_recommendations(s, ev, reply)
    ELSE IF s.page = "Learning Roadmap" THEN display_learning_roadmap(s, ev)
    ELSE IF s.page = "Skills Gap Analysis" THEN display_skills_gap_analysis(s, ev)
    ELSE IF s.page = "Live AI Consultation"
        THEN display_live_consultation(s, ev, consultation)
    ELSE Done(s, NoView)

\* a widget that a complete run did not draw loses its value
forget_widgets(r) ==
    IF r.rerun THEN r
    ELSE [r EXCEPT
            !.s.category = IF r.view.branch = "recommendations" THEN @
                           ELSE categories[1],
            !.s.path_options = IF r.view.branch = "recommendations" THEN @ ELSE <<>>,
            !.s.path_value = IF r.view.branch = "recommendations" THEN @ ELSE None,
            !.s.selected_career =
                IF r.view.branch \in {"analysis", "selection only"} THEN @
                ELSE career_options[1]]

\* mutant: the sidebar choice of a page is ignored while what the page needs
\* is missing
Script_gated(s, ev, reply, consultation) ==
    LET s0 == initialize_session_state(s)
        s1 == IF "page" \in s0.keys THEN s0
              ELSE [s0 EXCEPT !.keys = @ \cup {"page"}, !.page = "Profile Setup"]
        met == /\ ev.text = "Career Assessment" => s1.user_data # <<>>
               /\ ev.text = "Career Recommendations"
                    => DOMAIN s1.career_preferences # {}
               /\ ev.text = "Learning Roadmap" => s1.selected_career_path # None
    IN  IF ev.widget = "radio" /\ ev.text # s1.page /\ met
            THEN Rerun([s1 EXCEPT !.page = ev.text])
        ELSE IF ev.widget = "Start Fresh"
            THEN Rerun([Cleared(s1) EXCEPT !.keys = @ \cup {"page"},
                                            !.page = "Profile Setup"])
        ELSE [forget_widgets(router(s1, ev, reply, consultation)) EXCEPT
                !.view.start_chat_calls = start_chat_calls(s),
                !.view.chat_session_stored = chat_session_stored(s)]

\* one run of app.py
Script(s, ev, reply, consultation) ==
    LET s0 == initialize_session_state(s)
        s1 == IF "page" \in s0.keys THEN s0
              ELSE [s0 EXCEPT !.keys = @ \cup {"page"}, !.page = "Profile Setup"]
    IN  IF ev.widget = "radio" /\ ev.text # s1.page
            THEN Rerun([s1 EXCEPT !.page = ev.text])
        ELSE IF ev.widget = "Start Fresh"
            THEN Rerun([Cleared(s1) EXCEPT !.keys = @ \cup {"page"},
                                            !.page = "Profile Setup"])
        ELSE [forget_widgets(router(s1, ev, reply, consultation)) EXCEPT
                !.view.start_chat_calls = start_chat_calls(s),
                !.view.chat_session_stored = chat_session_stored(s)]

\* one interaction: the run it triggers and, after st.rerun(), the next run
Interact(s, ev, reply, consultation) ==
    LET r1 == Script(s, ev, reply, consultation)
    IN  IF r1.rerun THEN Script(r1.s, NoEvent, reply, consultation) ELSE r1

\* ------------------------------------------------------------------------
\* State
\* ------------------------------------------------------------------------

Cur ==
    [keys |-> keys, page |-> page, chat_stage |-> chat_stage,
     user_data |-> user_data, career_preferences |-> career_preferences,
     career_path_recommendations |-> career_path_recommendations,
     selected_career_path |-> selected_career_path,
     consultation_history |-> consultation_history,
     skills_gap |-> skills_gap, break_duration |-> break_duration,
     learning_progress |-> learning_progress,
     category |-> category, path_options |-> path_options,
     path_value |-> path_value, selected_career |-> selected_career]

Blank ==
    [keys |-> {}, page |-> "Profile Setup", chat_stage |-> 0,
     user_data |-> <<>>, career_preferences |-> <<>>,
     career_path_recommendations |-> <<>>,
     selected_career_path |-> None,
     consultation_history |-> <<>>,
     skills_gap |-> <<>>, break_duration |-> 0,
     learning_progress |-> <<>>,
     category |-> categories[1], path_options |-> <<>>,
     path_value |-> None, selected_career |-> career_options[1]]

\* the session after the first run of the script
Fresh == Interact(Blank, NoEvent, CHOOSE r \in Replies : TRUE, "raise")

Becomes(r) ==
    /\ keys' = r.s.keys
    /\ page' = r.s.page
    /\ chat_stage' = r.s.chat_stage
    /\ user_data' = r.s.user_data
    /\ career_preferences' = r.s.career_preferences
    /\ career_path_recommendations' = r.s.career_path_recommendations
    /\ selected_career_path' = r.s.selected_career_path
    /\ consultation_history' = r.s.consultation_history
    /\ skills_gap' = r.s.skills_gap
    /\ break_duration' = r.s.break_duration
    /\ learning_progress' = r.s.learning_progress
    /\ category' = r.s.category
    /\ path_options' = r.s.path_options
    /\ path_value' = r.s.path_value
    /\ selected_career' = r.s.selected_career
    /\ view' = r.view

Is(r) ==
    /\ keys = r.s.keys
    /\ page = r.s.page
    /\ chat_stage = r.s.chat_stage
    /\ user_data = r.s.user_data
    /\ career_preferences = r.s.career_preferences
    /\ career_path_recommendations = r.s.career_path_recommendations
    /\ selected_career_path = r.s.selected_career_path
    /\ consultation_history = r.s.consultation_history
    /\ skills_gap = r.s.skills_gap
    /\ break_duration = r.s.break_duration
    /\ learning_progress = r.s.learning_progress
    /\ category = r.s.category
    /\ path_options = r.s.path_options
    /\ path_value = r.s.path_value
    /\ selected_career = r.s.selected_career
    /\ view = r.view

Init == Is(Fresh)

\* an interaction whose runs reach no call of the external model
Plain(ev) == Becomes(Interact(Cur, ev, CHOOSE r \in Replies : TRUE, "raise"))

\* an interaction whose runs may call the recommendation agent
Recommending(ev) == \E reply \in Replies : Becomes(Interact(Cur, ev, reply, "raise"))

\* ------------------------------------------------------------------------
\* Inputs
\* ------------------------------------------------------------------------

Questions == { <<"J","o","b","s","?">> }

ProgressInputs == {0, 50}

BreakInputs == {0, 3}

Ratings == 0..5

\* what the user types into the text areas of the unanswered questions:
\* nothing, an answer to the first of them, or an answer to each
ResponseInputs(prefs) ==
    LET open == SelectSeq(career_preference_questions,
                          LAMBDA k : k \notin DOMAIN prefs)
        answered(S) == [k \in Range(open) |->
                            IF k \in S THEN CHOOSE a \in PreferenceAnswers : TRUE
                            ELSE ""]
    IN  {answered({}), answered(Range(open))}
            \cup {answered({open[i]}) : i \in {j \in {1} : j <= Len(open)}}

\* the (category, skill) positions that carry a stored rating above 0
rated(sg) ==
    {p \in UNION {{<<c, n>> : n \in DOMAIN sg[c]} : c \in DOMAIN sg} :
        sg[p[1]][p[2]] > 0}

\* ------------------------------------------------------------------------
\* Actions: one per widget
\* ------------------------------------------------------------------------

\* sidebar radio, lines 84-89
NavigateTo(p) ==
    /\ p # page
    /\ IF p = "Career Recommendations"
       THEN Recommending([Event("radio") EXCEPT !.text = p])
       ELSE Plain([Event("radio") EXCEPT !.text = p])

Navigate == \E p \in Range(pages) : NavigateTo(p)

\* a run of the script that no widget of the page reacts to: the app's Rerun
\* command, or a button without a handler such as the skill buttons of line 375
Rerender ==
    /\ page \in Range(pages)
    /\ IF page = "Career Recommendations"
       THEN Recommending(NoEvent)
       ELSE Plain(NoEvent)

\* sidebar button, lines 91-94
StartFresh ==
    /\ page \in Range(pages)
    /\ Plain(Event("Start Fresh"))

\* profile form, lines 134-141
SubmitText(text) ==
    /\ view.branch = "question"
    /\ Plain([Event("profile_form") EXCEPT !.text = text])

SubmitProfile == \E text \in Answers \cup {""} : SubmitText(text)

\* lines 144-146
GoToCareerAssessment ==
    /\ view.redirect = "Go to Career Assessment"
    /\ Plain(Event("Go to Career Assessment"))

\* lines 153-155 and 1122-1124
GoToProfileSetup ==
    /\ view.redirect = "Go to Profile Setup"
    /\ Plain(Event("Go to Profile Setup"))

\* assessment form, lines 165-186: a text area for every unanswered question
SubmitResponsesOf(responses) ==
    /\ view.routine = "Career Assessment"
    /\ view.branch \in {"form", "completed"}
    /\ DOMAIN responses = Range(career_preference_questions) \ DOMAIN career_preferences
    /\ Plain([Event("career_assessment_form") EXCEPT !.responses = responses])

SubmitResponses ==
    \E responses \in ResponseInputs(career_preferences) : SubmitResponsesOf(responses)

\* lines 199-201
ViewCareerRecommendations ==
    /\ view.redirect = "View Career Recommendations"
    /\ Recommending(Event("View Career Recommendations"))

\* category radio, lines 417-420
ChooseCategory ==
    /\ view.branch = "recommendations"
    /\ \E c \in Range(categories) :
          /\ c # category
          /\ Plain([Event("category") EXCEPT !.text = c])

\* path select box, lines 442-445
ChoosePath ==
    /\ view.branch = "recommendations"
    /\ \E i \in 1..MaxChoice :
          /\ i <= Len(path_options)
          /\ path_options[i] # path_value
          /\ Plain([Event("path_box") EXCEPT !.text = path_options[i]])

\* lines 557-559
GoToCareerRecommendations ==
    /\ view.redirect = "Go to Career Recommendations"
    /\ Recommending(Event("Go to Career Recommendations"))

\* progress sliders, lines 710-717
MoveProgress ==
    /\ view.branch = "roadmap"
    /\ \E st \in {learning_stages[1]}, n \in ProgressInputs :
          /\ learning_progress[st] # n
          /\ Plain([Event("progress") EXCEPT !.skill = st, !.num = n])

\* target career select box, line 1150
SelectTargetOf(c) ==
    /\ view.branch \in {"analysis", "selection only"}
    /\ c \in Range(career_options)
    /\ c # selected_career
    /\ Plain([Event("target") EXCEPT !.text = c])

SelectTarget == \E c \in Range(career_options) : SelectTargetOf(c)

\* break duration input, lines 1152-1156
SetBreakDuration ==
    /\ view.branch \in {"analysis", "selection only"}
    /\ \E d \in BreakInputs :
          /\ d # break_duration
          /\ Plain([Event("break_duration") EXCEPT !.num = d])

\* the i-th skill slider of the chosen career moved to n, lines 1193-1200
MoveRatingTo(i, n) ==
    LET es == industry_entries[selected_career] IN
    /\ view.branch = "analysis"
    /\ i \in 1..Len(es)
    /\ rating_of(skills_gap, es[i].category, es[i].skill) # n
    /\ Cardinality(rated(skills_gap) \cup {<<es[i].category, es[i].skill>>}) <= MaxRated
    /\ Plain([Event("rating") EXCEPT !.group = es[i].category,
                                     !.skill = es[i].skill, !.num = n])

MoveRating == \E i \in 1..11, n \in Ratings : MoveRatingTo(i, n)

\* lines 1376-1378
SaveProgress ==
    /\ view.branch = "analysis"
    /\ Plain(Event("save_progress"))

\* chat input, lines 939-977: question q, and the model call ending as c
AskQuestionOf(q, c) ==
    /\ view.routine = "Live AI Consultation"
    /\ Becomes(Interact(Cur, [Event("chat_input") EXCEPT !.question = q],
                        CHOOSE r \in Replies : TRUE, c))

AskQuestion ==
    /\ Len(consultation_history) < 2 * MaxQuestions
    /\ \E q \in Questions, c \in Consultations : AskQuestionOf(q, c)

\* lines 1003-1006
ClearChatHistory ==
    /\ view.routine = "Live AI Consultation"
    /\ consultation_history # <<>>
    /\ Plain(Event("Clear Chat History"))

\* ------------------------------------------------------------------------
\* The session: every page, with the gap page's sliders and break duration
\* left as they are drawn
\* ------------------------------------------------------------------------

Next ==
    \/ Navigate
    \/ Rerender
    \/ StartFresh
    \/ SubmitProfile
    \/ GoToCareerAssessment
    \/ GoToProfileSetup
    \/ SubmitResponses
    \/ ViewCareerRecommendations
    \/ ChooseCategory
    \/ ChoosePath
    \/ GoToCareerRecommendations
    \/ MoveProgress
    \/ SelectTarget
    \/ SaveProgress
    \/ AskQuestion
    \/ ClearChatHistory

Spec == Init /\ [][Next]_vars

\* ------------------------------------------------------------------------
\* The gap page alone: a profile is on file, the sliders move
\* ------------------------------------------------------------------------

\* a first profile answer, then the sidebar choice of the gap page
GapStart ==
    LET answered == Interact(Fresh.s, [Event("profile_form") EXCEPT !.text = "a"],
                             CHOOSE r \in Replies : TRUE, "raise")
    IN  Interact(answered.s, [Event("radio") EXCEPT !.text = "Skills Gap Analysis"],
                 CHOOSE r \in Replies : TRUE, "raise")

InitGap == Is(GapStart)

GapTargets == {"Software Development", "Data Science", "Cybersecurity"}

SelectGapTarget == \E c \in GapTargets : SelectTargetOf(c)

NextGap ==
    \/ MoveRating
    \/ SelectGapTarget
    \/ SetBreakDuration
    \/ SaveProgress

SpecGap == InitGap /\ [][NextGap]_vars

\* ------------------------------------------------------------------------
\* The profile page with a choice of answers
\* ------------------------------------------------------------------------

ProfileTexts == {"", "a", "b"}

SubmitAnyText == \E text \in ProfileTexts : SubmitText(text)

NextProfile ==
    \/ SubmitAnyText
    \/ Rerender
    \/ GoToCareerAssessment
    \/ GoToProfileSetup
    \/ Navigate
    \/ StartFresh

SpecProfile == Init /\ [][NextProfile]_vars

\* ------------------------------------------------------------------------
\* The consultation page with a choice of questions and a longer history
\* ------------------------------------------------------------------------

\* "Jobs?", "My CAREER pay", "skill pay", "Learn", "SALARY", "pay", "hi"
ChatQuestions ==
    { <<"J","o","b","s","?">>,
      <<"M","y"," ","C","A","R","E","E","R"," ","p","a","y">>,
      <<"s","k","i","l","l"," ","p","a","y">>,
      <<"L","e","a","r","n">>,
      <<"S","A","L","A","R","Y">>,
      <<"p","a","y">>,
      <<"h","i">> }

AskAnyQuestion ==
    /\ Len(consultation_history) < 2 * MaxQuestions
    /\ \E q \in ChatQuestions, c \in Consultations : AskQuestionOf(q, c)

\* a further question in a conversation that has begun
AskFollowUp ==
    /\ consultation_history # <<>>
    /\ Len(consultation_history) < 2 * MaxExchanges
    /\ \E q \in Questions, c \in Consultations : AskQuestionOf(q, c)

NextChat ==
    \/ AskAnyQuestion
    \/ AskFollowUp
    \/ ClearChatHistory
    \/ Navigate
    \/ Rerender
    \/ StartFresh
    \/ SubmitProfile
    \/ GoToCareerAssessment
    \/ GoToProfileSetup

SpecChat == Init /\ [][NextChat]_vars

\* ------------------------------------------------------------------------
\* Properties
\* ------------------------------------------------------------------------

OptionalSlots == {"consultation_history", "skills_gap", "break_duration",
                  "learning_progress"}

\* C1: on the profile page with a question open, a Submit with non-empty text
\* raises chat_stage by exactly 1 and appends exactly one entry to user_data,
\* keyed by the question at the old chat_stage and holding the text; a Submit
\* with empty text changes neither chat_stage nor user_data.
C1_SubmitAdvancesByOne ==
    [][\A text \in ProfileTexts :
          SubmitText(text) =>
            IF text # ""
            THEN /\ chat_stage < Len(profile_questions)
                 /\ chat_stage' = chat_stage + 1
                 /\ profile_questions[chat_stage + 1] \notin ItemKeys(user_data)
                 /\ user_data' = Append(user_data,
                                        [key |-> profile_questions[chat_stage + 1],
                                         value |-> text])
            ELSE /\ chat_stage' = chat_stage
                 /\ user_data' = user_data]_vars

C1_Witness ==
    /\ view.routine = "Profile Setup"
    /\ chat_stage = 2
    /\ user_data = <<[key |-> "Full Name", value |-> "b"],
                     [key |-> "Age", value |-> "a"]>>

\* C2: Start Fresh, from any reachable state on any page, leaves a session
\* equal to a freshly initialised one: page Profile Setup, chat_stage 0, the
\* collections empty, no path selected, and none of the optional slots.
C2_StartFreshIsFresh ==
    [][StartFresh =>
          /\ page' = "Profile Setup"
          /\ chat_stage' = 0
          /\ user_data' = <<>>
          /\ career_preferences' = <<>>
          /\ career_path_recommendations' = <<>>
          /\ selected_career_path' = None
          /\ keys' \cap OptionalSlots = {}
          /\ consultation_history' = <<>> /\ skills_gap' = <<>>
          /\ break_duration' = 0 /\ learning_progress' = <<>>
          /\ keys' = state_defaults \cup {"page"}
          /\ view'.routine = "Profile Setup" /\ view'.branch = "question"]_vars

\* a session with something in every slot, from which Start Fresh is taken
C2_Witness ==
    /\ page = "Live AI Consultation"
    /\ OptionalSlots \subseteq keys
    /\ chat_stage = 4
    /\ DOMAIN career_preferences = Range(career_preference_questions)
    /\ selected_career_path = "Data Science"
    /\ consultation_history # <<>>
    /\ learning_progress["fundamentals"] = 50
    /\ "Technical" \in DOMAIN skills_gap

\* C3: the Career Recommendations page rendered with no preferences and no
\* recommendations shows a guidance message and a redirect to Career Assessment.
C3_GuidanceWithoutPreferences ==
    (/\ view.routine = "Career Recommendations"
     /\ DOMAIN career_preferences = {}
     /\ career_path_recommendations = <<>>)
        => /\ view.branch = "guidance"
           /\ view.redirect = "Go to Career Assessment"

\* C4: the Learning Roadmap page rendered with no path selected takes the
\* guidance branch, offers the redirect to Career Recommendations (which sets
\* page to it), shows no roadmap content and leaves learning_progress alone.
C4_RoadmapGuidance ==
    /\ [](/\ selected_career_path = None => "learning_progress" \notin keys
          /\ (view.routine = "Learning Roadmap" /\ selected_career_path = None)
                => /\ view.branch = "guidance"
                   /\ view.redirect = "Go to Career Recommendations"
                   /\ view.target = None
                   /\ ~view.error)
    /\ [][/\ GoToCareerRecommendations => page' = "Career Recommendations"
          /\ (page' = "Learning Roadmap" /\ selected_career_path' = None)
                => /\ learning_progress' = learning_progress
                   /\ keys' \cap OptionalSlots = keys \cap OptionalSlots]_vars

C4_Witness ==
    /\ view.routine = "Learning Roadmap"
    /\ view.branch = "guidance"
    /\ selected_career_path = None
    /\ chat_stage = 4

\* the skills of the analysed career, in table order, and where a skill stands
AnalysedSkills == industry_entries[view.target]

Position(cat, skill) ==
    CHOOSE i \in 1..Len(AnalysedSkills) :
        AnalysedSkills[i].category = cat /\ AnalysedSkills[i].skill = skill

\* C5: the learning path lists a skill iff its weight exceeds its rating, with
\* gap = weight - rating and priority = gap * weight; it is ordered by
\* descending priority, and skills of equal priority keep their table order.
C5_LearningPathOrder ==
    view.analysis =>
        LET g == view.all_gaps
            short == {i \in 1..Len(AnalysedSkills) :
                        AnalysedSkills[i].weight >
                            rating_of(skills_gap, AnalysedSkills[i].category,
                                      AnalysedSkills[i].skill)}
        IN  /\ Len(g) = Cardinality(short)
            /\ {Position(g[i].category, g[i].skill) : i \in 1..Len(g)} = short
            /\ \A i \in 1..Len(g) :
                  LET e == AnalysedSkills[Position(g[i].category, g[i].skill)] IN
                  /\ g[i].gap = e.weight - rating_of(skills_gap, e.category, e.skill)
                  /\ g[i].priority = g[i].gap * e.weight
            /\ \A i, j \in 1..Len(g) :
                  i < j =>
                    \/ g[i].priority > g[j].priority
                    \/ /\ g[i].priority = g[j].priority
                       /\ Position(g[i].category, g[i].skill)
                            < Position(g[j].category, g[j].skill)

\* a rated skill of small priority behind unrated ones that tie with each other
C5_Witness ==
    /\ view.analysis
    /\ view.target = "Software Development"
    /\ rating_of(skills_gap, "Technical", "Node.js") = 2
    /\ view.all_gaps[1].skill = "Git & GitHub"
    /\ view.all_gaps[2].skill = "Technical Communication"
    /\ view.all_gaps[2].priority = view.all_gaps[1].priority
    /\ view.all_gaps[Len(view.all_gaps)].skill = "Node.js"

\* C6: the overall progress percentage is 100 * (skills whose rating reaches
\* their own required weight) / (number of skills).
C6_ProgressCountsOwnWeight ==
    view.analysis =>
        LET reached == {i \in 1..Len(AnalysedSkills) :
                          rating_of(skills_gap, AnalysedSkills[i].category,
                                    AnalysedSkills[i].skill)
                            >= AnalysedSkills[i].weight}
        IN  /\ view.total_skills = Len(AnalysedSkills)
            /\ 100 * view.completed_skills * Len(AnalysedSkills)
                  = 100 * Cardinality(reached) * view.total_skills

\* C7: with Cybersecurity chosen and no rating stored, the gap page shows an
\* analysis of Cybersecurity in which every gap is the skill's weight and the
\* overall progress is 0.0.
C7_CybersecurityAnalysis ==
    (/\ view.routine = "Skills Gap Analysis"
     /\ selected_career = "Cybersecurity"
     /\ rated(skills_gap) = {})
        => /\ view.analysis
           /\ view.target = "Cybersecurity"
           /\ view.total_skills > 0
           /\ view.completed_skills = 0
           /\ Len(view.all_gaps) = view.total_skills
           /\ \A i \in 1..Len(view.all_gaps) :
                 \* gap = weight, so priority = gap * weight = gap * gap
                 view.all_gaps[i].gap * view.all_gaps[i].gap = view.all_gaps[i].priority

\* what the code cannot read as a list of paths
Unusable(reply) ==
    \/ reply.raises
    \/ ~reply.is_json
    \/ ~reply.has_paths
    \/ \E i \in 1..Len(reply.recommended_paths) :
          ~reply.recommended_paths[i].has_career_path

\* the interactions that can end in a render of Career Recommendations
RecommendationEvents ==
    {[Event("radio") EXCEPT !.text = "Career Recommendations"],
     Event("View Career Recommendations"),
     Event("Go to Career Recommendations")}

\* C8: when the recommendation call raises or its reply cannot be read, the
\* page stores exactly the 13 fallback paths, 7 technical ones followed by 6
\* non-technical ones, and renders without an error.
C8_FallbackOnFailure ==
    [][\A reply \in Replies, ev \in RecommendationEvents :
          (/\ view'.generation_calls = 1
           /\ Unusable(reply)
           /\ Becomes(Interact(Cur, ev, reply, "raise")))
            => /\ Len(career_path_recommendations') = 13
               /\ SubSeq(career_path_recommendations', 1, 7) = technical_names
               /\ SubSeq(career_path_recommendations', 8, 13) = non_technical_names
               /\ view'.routine = "Career Recommendations"
               /\ view'.branch = "recommendations"
               /\ ~view'.error]_vars

C8_Witness ==
    /\ view.routine = "Career Recommendations"
    /\ view.generation_calls = 1
    /\ career_path_recommendations = fallback_recommendations
    /\ selected_career_path = "Software Development"

\* C9: chat_stage stays within 0..4, and on the profile page the completed
\* branch is rendered exactly when chat_stage = 4.
C9_StageWithinQuestions ==
    /\ chat_stage \in 0..4
    /\ chat_stage <= Len(profile_questions)
    /\ view.routine = "Profile Setup" =>
          (view.branch = "completed" <=> chat_stage = 4)
    /\ view.routine = "Profile Setup" =>
          (view.branch = "question" <=> chat_stage < 4)

C9_Witness ==
    /\ view.routine = "Profile Setup"
    /\ view.branch = "completed"
    /\ chat_stage = 4

\* C10: selected_career_path is None, or one of career_path_recommendations,
\* or a key of the static career table.
C10_SelectionIsKnown ==
    \/ selected_career_path = None
    \/ selected_career_path \in Range(career_path_recommendations)
    \/ selected_career_path \in market_data_keys

C10_Witness ==
    /\ selected_career_path = "Blockchain Engineering"
    /\ selected_career_path \in Range(career_path_recommendations)
    /\ selected_career_path \notin market_data_keys
    /\ page = "Learning Roadmap"

\* C11: the keys of user_data are the first chat_stage profile questions, in
\* question order, each with the non-empty text that was submitted for it; an
\* entry once stored stays as it is until Start Fresh; and with four answers
\* stored the profile page shows the completed branch.
C11_UserDataFollowsQuestions ==
    /\ [](/\ Len(user_data) = chat_stage
          /\ chat_stage <= Len(profile_questions)
          /\ \A i \in 1..Len(user_data) :
                /\ user_data[i].key = profile_questions[i]
                /\ user_data[i].value # ""
          /\ (view.routine = "Profile Setup" /\ Len(user_data) = 4)
                => /\ chat_stage = Len(profile_questions)
                   /\ view.branch = "completed")
    /\ [][\/ user_data' = <<>>
          \/ /\ Len(user_data') >= Len(user_data)
             /\ SubSeq(user_data', 1, Len(user_data)) = user_data]_vars

\* four different answers given in order from a fresh session
C11_Witness ==
    /\ view.routine = "Profile Setup"
    /\ view.branch = "completed"
    /\ user_data = <<[key |-> "Full Name", value |-> "a"],
                     [key |-> "Age", value |-> "b"],
                     [key |-> "Education", value |-> "b"],
                     [key |-> "Technical Background", value |-> "a"]>>

\* C12: the assessment page shows its completed branch exactly when every
\* preference question has a non-empty stored answer; no stored answer is ever
\* empty; and a Submit Responses adds exactly the non-empty responses, leaving
\* the answers already stored as they are.
C12_OnlyFilledResponsesStored ==
    /\ [](/\ DOMAIN career_preferences \subseteq Range(career_preference_questions)
          /\ \A k \in DOMAIN career_preferences : career_preferences[k] # ""
          /\ (view.routine = "Career Assessment" /\ view.branch # "guidance")
                => (view.branch = "completed"
                      <=> \A k \in Range(career_preference_questions) :
                             /\ k \in DOMAIN career_preferences
                             /\ career_preferences[k] # ""))
    /\ [][\A responses \in ResponseInputs(career_preferences) :
            SubmitResponsesOf(responses) =>
              /\ DOMAIN career_preferences' =
                    DOMAIN career_preferences
                        \cup {k \in DOMAIN responses : responses[k] # ""}
              /\ \A k \in DOMAIN career_preferences :
                    career_preferences'[k] = career_preferences[k]
              /\ \A k \in DOMAIN career_preferences' \ DOMAIN career_preferences :
                    career_preferences'[k] = responses[k]]_vars

\* a submission that answered one question and left three empty
C12_Witness ==
    /\ view.routine = "Career Assessment"
    /\ view.branch = "form"
    /\ DOMAIN career_preferences = {"interests"}

\* C13: with all four preference keys stored, the assessment page renders its
\* completed branch, and a render without a user action changes nothing: not
\* career_preferences, not any other slot, not what is shown.
C13_CompletionCheckIdempotent ==
    /\ []((/\ view.routine = "Career Assessment"
           /\ DOMAIN career_preferences = Range(career_preference_questions))
            => /\ view.branch = "completed"
               /\ view.redirect = "View Career Recommendations")
    /\ [][(/\ Rerender
           /\ view.routine = "Career Assessment"
           /\ DOMAIN career_preferences = Range(career_preference_questions))
            => UNCHANGED vars]_vars

C13_Witness ==
    /\ view.routine = "Career Assessment"
    /\ view.branch = "completed"
    /\ DOMAIN career_preferences = Range(career_preference_questions)
    /\ career_path_recommendations # <<>>

\* the last two turns of the new history, behind the old history unchanged
Exchange(q) ==
    /\ Len(consultation_history') = Len(consultation_history) + 2
    /\ SubSeq(consultation_history', 1, Len(consultation_history))
          = consultation_history
    /\ consultation_history'[Len(consultation_history) + 1] = Turn("user", q)
    /\ consultation_history'[Len(consultation_history) + 2].role = "assistant"

Answer == consultation_history'[Len(consultation_history')].content

CannedResponses == {"canned: career paths", "canned: skills", "canned: salary",
                    "canned: be more specific"}

\* C14 as stated: every submitted question is appended as a user turn and is
\* answered through a model call; a canned response follows a failed call only.
C14_ModelCallFirst ==
    [][\A q \in ChatQuestions, c \in Consultations :
          AskQuestionOf(q, c) =>
            /\ Exchange(q)
            /\ view'.consultation_calls = 1
            /\ c = "answer" => Answer = "model answer"
            /\ c = "raise" => Answer \in CannedResponses]_vars

\* C14 amended: every submitted question is appended as a user turn; with a
\* profile answer on file it is answered through the model call, and a canned
\* response is used only when that call has failed; with user_data empty no
\* model call is made and the fixed profile-setup message is the answer.
C14_ModelCallFirstGivenProfile ==
    [][\A q \in ChatQuestions, c \in Consultations :
          AskQuestionOf(q, c) =>
            /\ Exchange(q)
            /\ IF user_data = <<>>
               THEN /\ view'.consultation_calls = 0
                    /\ Answer = "complete your profile setup first"
               ELSE /\ view'.consultation_calls = 1
                    /\ c = "answer" => Answer = "model answer"
                    /\ c = "raise" => Answer \in CannedResponses]_vars

\* a question with a keyword, answered by the model, after one that was asked
\* before any profile answer was given
C14_Witness ==
    /\ Len(consultation_history) = 4
    /\ consultation_history[2].content = "complete your profile setup first"
    /\ consultation_history[3] = Turn("user", <<"J","o","b","s","?">>)
    /\ consultation_history[4] = Turn("assistant", "model answer")
    /\ view.consultation_calls = 1

\* the canned response the claim's order of tests gives each question
ExpectedCanned(q) ==
    CASE q = <<"J","o","b","s","?">> -> "canned: career paths"
      [] q = <<"M","y"," ","C","A","R","E","E","R"," ","p","a","y">>
            -> "canned: career paths"
      [] q = <<"s","k","i","l","l"," ","p","a","y">> -> "canned: skills"
      [] q = <<"L","e","a","r","n">> -> "canned: skills"
      [] q = <<"S","A","L","A","R","Y">> -> "canned: salary"
      [] q = <<"p","a","y">> -> "canned: salary"
      [] q = <<"h","i">> -> "canned: be more specific"

\* C15: when the model call fails, the answer is the canned response chosen by
\* the case-insensitive tests career/job, then skill/learn, then salary/pay,
\* then the generic request; it is the one assistant turn appended, and the
\* page renders without an error.
C15_KeywordFallbackOrder ==
    [][\A q \in ChatQuestions :
          (user_data # <<>> /\ AskQuestionOf(q, "raise")) =>
            /\ Exchange(q)
            /\ Answer = ExpectedCanned(q)
            /\ view'.branch = "answered"
            /\ ~view'.error]_vars

C15_Witness ==
    /\ view.branch = "answered"
    /\ user_data # <<>>
    /\ consultation_history =
          <<Turn("user", <<"M","y"," ","C","A","R","E","E","R"," ","p","a","y">>),
            Turn("assistant", "canned: career paths")>>

\* C16: Clear Chat History empties consultation_history; every other step
\* except Start Fresh leaves the old history as a prefix of the new one.
C16_HistoryAppendOnly ==
    [][/\ ClearChatHistory => consultation_history' = <<>>
       /\ (~ClearChatHistory /\ ~StartFresh) =>
             /\ Len(consultation_history') >= Len(consultation_history)
             /\ SubSeq(consultation_history', 1, Len(consultation_history))
                   = consultation_history]_vars

\* a second exchange behind a first one, kept while another page is shown
C16_Witness ==
    /\ Len(consultation_history) = 4
    /\ consultation_history[1].role = "user"
    /\ consultation_history[3].role = "user"
    /\ page = "Career Assessment"

\* C17: for each of the six pages, the script run that the sidebar choice of
\* the page triggers sets page to it and asks for a rerun, whatever the page
\* needs, and changes no other slot; the interaction ends with that page
\* rendered and with user_data, chat_stage, career_preferences and the
\* consultation history as they were.
C17_NavigationOnlySetsPage ==
    \A p \in Range(pages) \ {page} :
        LET jump == [Event("radio") EXCEPT !.text = p]
            r == Script(Cur, jump, CHOOSE x \in Replies : TRUE, "raise")
            shown == Interact(Cur, jump, CHOOSE x \in Replies : TRUE, "raise")
        IN  /\ r.rerun
            /\ r.s = [Cur EXCEPT !.page = p]
            /\ shown.s.page = p
            /\ shown.view.routine = p
            /\ shown.s.user_data = user_data
            /\ shown.s.chat_stage = chat_stage
            /\ shown.s.career_preferences = career_preferences
            /\ shown.s.consultation_history = consultation_history

\* the roadmap page chosen in the sidebar with nothing on file
C17_Witness ==
    /\ page = "Learning Roadmap"
    /\ view.routine = "Learning Roadmap"
    /\ user_data = <<>>
    /\ selected_career_path = None
    /\ "consultation_history" \in keys

\* C18: no render of a page aborts with an unhandled error; the roadmap page
\* finds name, url and platform in every course record of the path it shows.
C18_NoRenderAborts ==
    /\ ~view.error
    /\ view.branch = "roadmap" => resources_render(view.target)

\* C19: once Career Recommendations has been rendered with preferences on
\* file, and so a generation call has been made, no later render makes
\* another call, whatever the model replied.
C19_OneGenerationCall ==
    [][(/\ view.routine = "Career Recommendations"
        /\ DOMAIN career_preferences # {})
         => view'.generation_calls = 0]_vars

\* C20: with user_data empty, Career Assessment and Skills Gap Analysis render
\* the warning and the Go to Profile Setup redirect only; no preference, no
\* skills_gap and no break_duration slot exists; a render without a user
\* action changes nothing, and the redirect changes page to Profile Setup and
\* no other slot.
C20_GuidanceMutatesNothing ==
    /\ [](user_data = <<>> =>
            /\ career_preferences = <<>>
            /\ keys \cap {"skills_gap", "break_duration"} = {}
            /\ view.routine \in {"Career Assessment", "Skills Gap Analysis"}
                  => /\ view.branch = "guidance"
                     /\ view.redirect = "Go to Profile Setup"
                     /\ ~view.analysis)
    /\ [][(/\ user_data = <<>>
           /\ view.routine \in {"Career Assessment", "Skills Gap Analysis"})
            => /\ Rerender => UNCHANGED vars
               /\ GoToProfileSetup =>
                    /\ page' = "Profile Setup"
                    /\ UNCHANGED <<keys, chat_stage, user_data, career_preferences,
                                   career_path_recommendations,
                                   selected_career_path, consultation_history,
                                   skills_gap, break_duration,
                                   learning_progress>>]_vars

C20_Witness ==
    /\ view.routine = "Skills Gap Analysis"
    /\ view.branch = "guidance"
    /\ user_data = <<>>
    /\ "consultation_history" \in keys

\* what a slider of the gap page or its break duration input can be set to
GapInputs ==
    {[Event("break_duration") EXCEPT !.num = d] : d \in BreakInputs}
        \cup {[Event("rating") EXCEPT
                    !.group = industry_entries[selected_career][i].category,
                    !.skill = industry_entries[selected_career][i].skill,
                    !.num = n] :
                 i \in 1..Len(industry_entries[selected_career]), n \in {5}}

\* C21: page changes only in a step taken through the sidebar, a proceed or
\* redirect button, or Start Fresh; a profile answer (the last one too), an
\* assessment submission, a consultation question, a progress slider, and on
\* the gap page a rating slider or the break duration, leave page as it is.
C21_PageNeverAdvancesAlone ==
    /\ [](view.branch = "analysis" =>
            \A ev \in GapInputs :
                Interact(Cur, ev, CHOOSE x \in Replies : TRUE, "raise").s.page = page)
    /\ [][page' # page =>
            \/ NavigateTo(page')
            \/ StartFresh
            \/ GoToCareerAssessment
            \/ GoToProfileSetup
            \/ ViewCareerRecommendations
            \/ GoToCareerRecommendations]_vars

\* the assessment just completed by a submission, the page still shown
C21_Witness ==
    /\ page = "Career Assessment"
    /\ view.branch = "completed"
    /\ chat_stage = 4
    /\ career_path_recommendations = <<>>
    /\ "skills_gap" \in keys

\* C22: between resets no script run creates a model-conversation handle: only
\* the run that starts a session calls start_chat, and it stores the handle.
C22_HandleCreatedOnce ==
    [][~StartFresh =>
          /\ view'.start_chat_calls = 0
          /\ ~view'.chat_session_stored]_vars

TechnicalSet ==
    {"Software Development", "Data Science", "Machine Learning Engineering",
     "DevOps Engineering", "Data Analytics", "Cybersecurity", "UI/UX Design"}

NonTechnicalSet ==
    {"Digital Marketing", "Product Management", "Business Analysis",
     "Technical Writing", "IT Project Management",
     "IT Sales & Business Development"}

\* the members of S among the recommendations, in recommendation order
Offered(S) == SelectSeq(career_path_recommendations, LAMBDA x : x \in S)

\* C23: the list offered for selection is the recommendations of the 7-name
\* technical set under Technical Careers, those of the 6-name non-technical
\* set under Non-Technical Careers, all of them under All Careers, each in
\* recommendation order; and a path committed by the page is in that list.
C23_CategoryFilter ==
    view.branch = "recommendations" =>
        /\ category = "Technical Careers"
              => view.paths_to_show = Offered(TechnicalSet)
        /\ category = "Non-Technical Careers"
              => view.paths_to_show = Offered(NonTechnicalSet)
        /\ category = "All Careers"
              => view.paths_to_show = career_path_recommendations
        /\ category \in Range(categories)
        /\ path_options = view.paths_to_show
        /\ view.paths_to_show # <<>>
              => selected_career_path \in Range(view.paths_to_show)

\* a name of neither set among the recommendations, the technical ones offered
C23_Witness ==
    /\ view.branch = "recommendations"
    /\ category = "Technical Careers"
    /\ career_path_recommendations = <<"Blockchain Engineering", "Data Science">>
    /\ view.paths_to_show = <<"Data Science">>
    /\ selected_career_path = "Data Science"

\* C24: the roadmap shown for a selected path that is not a key of
\* learning_paths is the Software Development one; for Software Development
\* and Data Science it is the path's own.
C24_RoadmapDefault ==
    view.branch = "roadmap" =>
        /\ selected_career_path \notin {"Software Development", "Data Science"}
              => view.target = "Software Development"
        /\ selected_career_path \in {"Software Development", "Data Science"}
              => view.target = selected_career_path

C24_Witness ==
    /\ view.branch = "roadmap"
    /\ selected_career_path = "Digital Marketing"
    /\ view.target = "Software Development"

\* C28: a render of Career Recommendations that offers a non-empty list
\* commits selected_career_path to the entry of the select box, which is the
\* first entry of the list when the box is newly built; a render that offers
\* an empty list leaves selected_career_path as it was.
C28_SelectboxCommitsDefault ==
    /\ []((view.branch = "recommendations" /\ view.paths_to_show # <<>>)
            => /\ path_value \in Range(view.paths_to_show)
               /\ selected_career_path = path_value)
    /\ [][view'.branch = "recommendations" =>
            /\ (view'.paths_to_show # <<>> /\ path_options' # path_options)
                  => selected_career_path' = view'.paths_to_show[1]
            /\ view'.paths_to_show = <<>>
                  => selected_career_path' = selected_career_path]_vars

\* nothing offered under Non-Technical Careers, the earlier selection kept
C28_Witness ==
    /\ view.branch = "recommendations"
    /\ category = "Non-Technical Careers"
    /\ view.paths_to_show = <<>>
    /\ selected_career_path = "Blockchain Engineering"

\* C25: consultation_history has even length and alternates user, assistant,
\* user, assistant, ... from its first turn on.
C25_HistoryAlternates ==
    /\ Len(consultation_history) % 2 = 0
    /\ \A i \in 1..Len(consultation_history) :
          consultation_history[i].role = IF i % 2 = 1 THEN "user" ELSE "assistant"

\* a question answered by the model and one answered after the call failed
C25_Witness ==
    /\ Len(consultation_history) = 4
    /\ consultation_history[2].content = "model answer"
    /\ consultation_history[4].content = "canned: career paths"

\* C26: career_path_recommendations, once non-empty, stays as it is in every
\* step except Start Fresh.
C26_RecommendationsKept ==
    [][career_path_recommendations # <<>> =>
          \/ career_path_recommendations' = career_path_recommendations
          \/ StartFresh]_vars

\* the list the model gave, all four answers on file, the page rendered again
C26_Witness ==
    /\ view.routine = "Career Recommendations"
    /\ view.generation_calls = 0
    /\ career_path_recommendations = <<"Blockchain Engineering", "Data Science">>
    /\ DOMAIN career_preferences = Range(career_preference_questions)
    /\ category = "All Careers"
    /\ selected_career_path = "Data Science"

\* C27: a render of Career Recommendations makes the generation call iff it
\* finds career_path_recommendations empty and at least one preference
\* stored, however many preferences and profile answers there are.
C27_GenerationCondition ==
    [][view'.routine = "Career Recommendations" =>
          (view'.generation_calls = 1
              <=> /\ career_path_recommendations = <<>>
                  /\ DOMAIN career_preferences # {})]_vars

\* a call made with one preference and one profile answer on file
C27_Witness ==
    /\ view.routine = "Career Recommendations"
    /\ view.generation_calls = 1
    /\ DOMAIN career_preferences = {"interests"}
    /\ chat_stage = 1

\* C29: a stored preference is never changed or removed, and
\* career_preferences only grows, in every step except Start Fresh.
C29_PreferencesOnlyGrow ==
    [][\/ /\ DOMAIN career_preferences \subseteq DOMAIN career_preferences'
          /\ \A k \in DOMAIN career_preferences :
                career_preferences'[k] = career_preferences[k]
       \/ StartFresh]_vars

\* two answers given in two submissions
C29_Witness ==
    /\ view.routine = "Career Assessment"
    /\ DOMAIN career_preferences = {"interests", "work_style"}

\* C30: a question submitted while user_data is empty gets the fixed
\* profile-setup message as its assistant turn, whatever the question and the
\* state of the model, and no model call is made.
C30_NoModelCallWithoutProfile ==
    [][\A q \in ChatQuestions, c \in Consultations :
          (user_data = <<>> /\ AskQuestionOf(q, c)) =>
            /\ Exchange(q)
            /\ Answer = "complete your profile setup first"
            /\ view'.consultation_calls = 0]_vars

C30_Witness ==
    /\ user_data = <<>>
    /\ view.branch = "answered"
    /\ view.consultation_calls = 0
    /\ consultation_history =
          <<Turn("user", <<"S","A","L","A","R","Y">>),
            Turn("assistant", "complete your profile setup first")>>

====
